---- MODULE Spec2Model ----
(***************************************************************************)
(* GstPipeline of gstreamer/gstreamer.py: the single-slot frame hand-off   *)
(* between the appsink callback (on_new_sample) and the inference worker   *)
(* (inference_loop), and the start / main-loop / clean-up sequence of      *)
(* run() driven by the bus messages (on_bus_message).                      *)
(*                                                                         *)
(* Three threads are modelled, each with its position in the code:         *)
(*   ctlPc  the thread that calls run()  (it also runs the GLib main loop, *)
(*          so on_bus_message executes on it),                             *)
(*   wPc    the worker thread running inference_loop,                      *)
(*   pPc    the pipeline's streaming thread inside on_new_sample.          *)
(* self.condition is a threading.Condition: `lock` is the owner of its     *)
(* lock and `waiting` tells whether the worker sits in condition.wait().   *)
(***************************************************************************)
EXTENDS Integers, Sequences, FiniteSets

\* Frames the pipeline delivers in one session; frame n is the n-th sample pulled.
MaxFrames == 3

\* Python's None as the value of the tuple-valued fields sink_size and box.
None == <<>>

\* Python's None as the value of self.gstbuffer; the frames are 1, 2, ...
NoBuffer == 0


\* Message types on_bus_message distinguishes; OTHER is any other Gst.MessageType.
MsgTypes == {"EOS", "WARNING", "ERROR", "OTHER"}

\* Values the user function may return: '' (falsy) or an svg document.
SvgValues == {"", "svgA", "svgB"}

\* (width, height) of a sample's caps.
CapsSizes == {<<4, 3>>, <<2, 2>>}

\* Values of the four geometry properties of the glbox filter (x, y, width,
\* height) or of the videobox (left, top, right, bottom).
PropValues == {<<0, 0, 0, 0>>, <<-1, 0, -1, 0>>}

\* Which named elements Gst.parse_launch produced (get_by_name returns None
\* for a missing one).
Topologies ==
    { [glbox |-> TRUE,  box |-> FALSE, overlay |-> FALSE, overlaysink |-> TRUE],
      [glbox |-> FALSE, box |-> TRUE,  overlay |-> TRUE,  overlaysink |-> FALSE],
      [glbox |-> TRUE,  box |-> TRUE,  overlay |-> TRUE,  overlaysink |-> TRUE],
      [glbox |-> FALSE, box |-> FALSE, overlay |-> FALSE, overlaysink |-> FALSE] }

VARIABLES
    running,        \* self.running
    gstbuffer,      \* self.gstbuffer: None or a frame
    sink_size,      \* self.sink_size: None or (width, height)
    box,            \* self.box: None or the cached rectangle
    lock,           \* owner of self.condition's lock
    waiting,        \* the worker is in self.condition.wait() and not yet notified
    pipelineState,  \* state last commanded with self.pipeline.set_state
    topo,           \* the elements of self.pipeline
    props,          \* current geometry properties of the glbox / box element
    overlayData,    \* 'data' property of self.overlay
    overlaysinkSvg, \* 'svg' property of self.overlaysink
    ctlPc,          \* position of the control thread in run()
    quit,           \* Gtk.main_quit() was called on the running main loop
    stderr,         \* kind of the last line written to sys.stderr
    wPc,            \* position of the worker thread in inference_loop
    wbuf,           \* inference_loop's local gstbuffer
    pPc,            \* position of the streaming thread in on_new_sample
    sample,         \* on_new_sample's local sample: None or the frame it carries
    nextFrame,      \* number of samples pulled so far
    delivered,      \* frames passed to self.user_function, in call order
    dropped         \* frames overwritten in the slot before the worker took them

vars == <<running, gstbuffer, sink_size, box, lock, waiting, pipelineState, topo,
          props, overlayData, overlaysinkSvg, ctlPc, quit, stderr, wPc, wbuf,
          pPc, sample, nextFrame, delivered, dropped>>

ctlVars == <<ctlPc, quit, stderr>>
workerVars == <<wPc, wbuf>>
producerVars == <<pPc, sample, nextFrame>>
overlayVars == <<overlayData, overlaysinkSvg>>
pipeVars == <<pipelineState, topo, props>>

\* GstPipeline.__init__
Init ==
    /\ running = FALSE
    /\ gstbuffer = NoBuffer
    /\ sink_size = None
    /\ box = None
    /\ lock = "none"
    /\ waiting = FALSE
    /\ pipelineState = "NULL"
    /\ topo \in Topologies
    /\ props \in PropValues
    /\ overlayData = ""
    /\ overlaysinkSvg = ""
    /\ ctlPc = "start"
    /\ quit = FALSE
    /\ stderr = ""
    /\ wPc = "none"
    /\ wbuf = NoBuffer
    /\ pPc = "idle"
    /\ sample = NoBuffer
    /\ nextFrame = 0
    /\ delivered = <<>>
    /\ dropped = {}

(***************************************************************************)
(* Control thread: GstPipeline.run and the callbacks the main loop runs.   *)
(***************************************************************************)

\* RunStart with the self.running = True left out (set too late to matter).
RunStartNoFlag ==
    /\ ctlPc = "start"
    /\ ctlPc' = "spawn"
    /\ UNCHANGED <<running, gstbuffer, sink_size, box, lock, waiting, quit, stderr,
                   delivered, dropped, workerVars, producerVars, overlayVars,
                   pipeVars>>

\* run(), line 54: self.running = True
RunStart ==
    /\ ctlPc = "start"
    /\ running' = TRUE
    /\ ctlPc' = "spawn"
    /\ UNCHANGED <<gstbuffer, sink_size, box, lock, waiting, quit, stderr, delivered,
                   dropped, workerVars, producerVars, overlayVars, pipeVars>>

\* run(), lines 55-56: the worker thread is created and started.
RunSpawn ==
    /\ ctlPc = "spawn"
    /\ wPc = "none"
    /\ wPc' = "lock"
    /\ ctlPc' = "play"
    /\ UNCHANGED <<running, gstbuffer, sink_size, box, lock, waiting, quit, stderr,
                   wbuf, delivered, dropped, producerVars, overlayVars, pipeVars>>

\* run(), lines 59-61: set_state(PLAYING), then Gtk.main() is entered.
RunPlay ==
    /\ ctlPc = "play"
    /\ pipelineState' = "PLAYING"
    /\ ctlPc' = "main"
    /\ UNCHANGED <<running, gstbuffer, sink_size, box, lock, waiting, quit, stderr,
                   topo, props, delivered, dropped, workerVars, producerVars,
                   overlayVars>>

\* Gtk.main_quit(): stops the main loop Gtk.main() runs. Called while no main
\* loop runs (a callback dispatched by the clean-up's iteration()) it does nothing.
MainQuit(q) == IF ctlPc = "main" THEN TRUE ELSE q

\* BusQuits with the ERROR branch's Gtk.main_quit() (line 84) left out.
BusQuitsEosOnly(t) == t = "EOS"

\* BusQuits with a Gtk.main_quit() in the WARNING branch as well.
BusQuitsOnWarning(t) == t = "EOS" \/ t = "ERROR" \/ t = "WARNING"

\* on_bus_message, lines 76-84: does the handler call Gtk.main_quit() for type t?
BusQuits(t) == t = "EOS" \/ t = "ERROR"

\* on_bus_message, lines 78-83: what the handler writes to sys.stderr for type t.
BusWrites(t, err) ==
    IF t = "WARNING" THEN "Warning" ELSE IF t = "ERROR" THEN "Error" ELSE err

\* on_bus_message(bus, message) with message.type = t. The bus watch dispatches
\* it from the default main context: inside Gtk.main() (line 61) or inside the
\* clean-up's iteration() (line 67).
OnBusMessage(t) ==
    /\ ctlPc \in {"main", "drain"}
    /\ stderr' = BusWrites(t, stderr)
    /\ quit' = IF BusQuits(t) THEN MainQuit(quit) ELSE quit
    /\ UNCHANGED <<running, gstbuffer, sink_size, box, lock, waiting, ctlPc,
                   delivered, dropped, workerVars, producerVars, overlayVars,
                   pipeVars>>

\* setup_window, lines 139-140 and 175: with an overlaysink the window's
\* delete-event is connected to Gtk.main_quit.
WindowDelete ==
    /\ ctlPc = "main"
    /\ topo.overlaysink
    /\ quit' = MainQuit(quit)
    /\ UNCHANGED <<running, gstbuffer, sink_size, box, lock, waiting, ctlPc, stderr,
                   delivered, dropped, workerVars, producerVars, overlayVars,
                   pipeVars>>

\* run(), lines 60-63: an exception out of Gtk.main() (KeyboardInterrupt) is
\* swallowed and run() goes on to the clean-up.
KeyboardInterrupt ==
    /\ ctlPc = "main"
    /\ ctlPc' = "null"
    /\ UNCHANGED <<running, gstbuffer, sink_size, box, lock, waiting, quit, stderr,
                   delivered, dropped, workerVars, producerVars, overlayVars,
                   pipeVars>>

\* run(), line 61: Gtk.main() returns once the loop was quit.
MainReturn ==
    /\ ctlPc = "main"
    /\ quit
    /\ ctlPc' = "null"
    /\ UNCHANGED <<running, gstbuffer, sink_size, box, lock, waiting, quit, stderr,
                   delivered, dropped, workerVars, producerVars, overlayVars,
                   pipeVars>>

\* RunSetNull with the set_state(NULL) left out.
RunSetNullSkipped ==
    /\ ctlPc = "null"
    /\ ctlPc' = "drain"
    /\ UNCHANGED <<running, gstbuffer, sink_size, box, lock, waiting, quit, stderr,
                   delivered, dropped, workerVars, producerVars, overlayVars,
                   pipeVars>>

\* run(), line 66: self.pipeline.set_state(Gst.State.NULL)
RunSetNull ==
    /\ ctlPc = "null"
    /\ pipelineState' = "NULL"
    /\ ctlPc' = "drain"
    /\ UNCHANGED <<running, gstbuffer, sink_size, box, lock, waiting, quit, stderr,
                   topo, props, delivered, dropped, workerVars, producerVars,
                   overlayVars>>

\* run(), lines 67-68: iteration(False) returns False, nothing is pending.
RunDrain ==
    /\ ctlPc = "drain"
    /\ ctlPc' = "lock"
    /\ UNCHANGED <<running, gstbuffer, sink_size, box, lock, waiting, quit, stderr,
                   delivered, dropped, workerVars, producerVars, overlayVars,
                   pipeVars>>

\* RunAcquire with lines 70-71 outside any with block: running is cleared and
\* the waiters are notified without the lock.
RunAcquireUnlocked ==
    /\ ctlPc = "lock"
    /\ running' = FALSE
    /\ waiting' = FALSE
    /\ ctlPc' = "join"
    /\ UNCHANGED <<gstbuffer, sink_size, box, lock, quit, stderr, delivered,
                   dropped, workerVars, producerVars, overlayVars, pipeVars>>

\* run(), line 69: with self.condition (the lock is acquired)
RunAcquire ==
    /\ ctlPc = "lock"
    /\ lock = "none"
    /\ lock' = "ctl"
    /\ ctlPc' = "stop"
    /\ UNCHANGED <<running, gstbuffer, sink_size, box, waiting, quit, stderr,
                   delivered, dropped, workerVars, producerVars, overlayVars,
                   pipeVars>>

\* RunStop with the notify_all() (line 71) left out.
RunStopNoNotify ==
    /\ ctlPc = "stop"
    /\ lock = "ctl"
    /\ running' = FALSE
    /\ lock' = "none"
    /\ ctlPc' = "join"
    /\ UNCHANGED <<gstbuffer, sink_size, box, waiting, quit, stderr, delivered,
                   dropped, workerVars, producerVars, overlayVars, pipeVars>>

\* run(), lines 70-71 and the end of the with block: running is cleared, every
\* waiter is notified, the lock is released.
RunStop ==
    /\ ctlPc = "stop"
    /\ lock = "ctl"
    /\ running' = FALSE
    /\ waiting' = FALSE
    /\ lock' = "none"
    /\ ctlPc' = "join"
    /\ UNCHANGED <<gstbuffer, sink_size, box, quit, stderr, delivered, dropped,
                   workerVars, producerVars, overlayVars, pipeVars>>

\* RunJoin that does not wait for the worker thread to end.
RunJoinNoWait ==
    /\ ctlPc = "join"
    /\ ctlPc' = "done"
    /\ UNCHANGED <<running, gstbuffer, sink_size, box, lock, waiting, quit, stderr,
                   delivered, dropped, workerVars, producerVars, overlayVars,
                   pipeVars>>

\* run(), line 72: worker.join() returns when the worker thread has ended.
RunJoin ==
    /\ ctlPc = "join"
    /\ wPc \in {"exit", "dead"}
    /\ ctlPc' = "done"
    /\ UNCHANGED <<running, gstbuffer, sink_size, box, lock, waiting, quit, stderr,
                   delivered, dropped, workerVars, producerVars, overlayVars,
                   pipeVars>>

\* run_pipeline, lines 241-242: pipeline.run() returns None whatever ended
\* the session, run_pipeline returns after it, and nothing calls sys.exit:
\* the status the process ends with once run() has returned.
ExitStatus == 0

(***************************************************************************)
(* Streaming thread: GstPipeline.on_new_sample.                            *)
(***************************************************************************)

\* on_new_sample, line 88: the appsink of a playing pipeline emits new-sample
\* and the handler pulls the sample.
PPull ==
    /\ pPc = "idle"
    /\ pipelineState = "PLAYING"
    /\ nextFrame < MaxFrames
    /\ sample' = nextFrame + 1
    /\ nextFrame' = nextFrame + 1
    /\ pPc' = "size"
    /\ UNCHANGED <<running, gstbuffer, sink_size, box, lock, waiting, delivered,
                   dropped, ctlVars, workerVars, overlayVars, pipeVars>>

\* PSize without the 'if not self.sink_size' (line 89): every sample's caps
\* overwrite sink_size.
PSizeAlways(sz) ==
    /\ pPc = "size"
    /\ sink_size' = sz
    /\ pPc' = "lock"
    /\ UNCHANGED <<running, gstbuffer, box, lock, waiting, sample, nextFrame,
                   delivered, dropped, ctlVars, workerVars, overlayVars, pipeVars>>

\* on_new_sample, lines 89-91: sink_size is taken from the sample's caps (of
\* size sz) when it is not set yet.
PSize(sz) ==
    /\ pPc = "size"
    /\ sink_size' = IF sink_size = None THEN sz ELSE sink_size
    /\ pPc' = "lock"
    /\ UNCHANGED <<running, gstbuffer, box, lock, waiting, sample, nextFrame,
                   delivered, dropped, ctlVars, workerVars, overlayVars, pipeVars>>

\* on_new_sample, line 92: with self.condition (the lock is acquired)
PLock ==
    /\ pPc = "lock"
    /\ lock = "none"
    /\ lock' = "producer"
    /\ pPc' = "store"
    /\ UNCHANGED <<running, gstbuffer, sink_size, box, waiting, sample, nextFrame,
                   delivered, dropped, ctlVars, workerVars, overlayVars, pipeVars>>

\* PStore that keeps an unconsumed frame instead of replacing it.
PStoreKeepOldest ==
    /\ pPc = "store"
    /\ lock = "producer"
    /\ gstbuffer' = IF gstbuffer = NoBuffer THEN sample ELSE gstbuffer
    /\ dropped' = IF gstbuffer = NoBuffer THEN dropped ELSE dropped \cup {sample}
    /\ waiting' = FALSE
    /\ lock' = "none"
    /\ sample' = NoBuffer
    /\ pPc' = "idle"
    /\ UNCHANGED <<running, sink_size, box, nextFrame, delivered, ctlVars,
                   workerVars, overlayVars, pipeVars>>

\* PStore that also sets self.running, as if a frame (re)started the session.
PStoreSetsRunning ==
    /\ pPc = "store"
    /\ lock = "producer"
    /\ gstbuffer' = sample
    /\ dropped' = IF gstbuffer = NoBuffer THEN dropped ELSE dropped \cup {gstbuffer}
    /\ waiting' = FALSE
    /\ running' = TRUE
    /\ lock' = "none"
    /\ sample' = NoBuffer
    /\ pPc' = "idle"
    /\ UNCHANGED <<sink_size, box, nextFrame, delivered, ctlVars, workerVars,
                   overlayVars, pipeVars>>

\* PStore with the notify_all() (line 94) left out.
PStoreNoNotify ==
    /\ pPc = "store"
    /\ lock = "producer"
    /\ gstbuffer' = sample
    /\ dropped' = IF gstbuffer = NoBuffer THEN dropped ELSE dropped \cup {gstbuffer}
    /\ lock' = "none"
    /\ sample' = NoBuffer
    /\ pPc' = "idle"
    /\ UNCHANGED <<running, sink_size, box, waiting, nextFrame, delivered, ctlVars,
                   workerVars, overlayVars, pipeVars>>

\* on_new_sample, lines 93-95: the buffer replaces the slot's content, every
\* waiter is notified, the lock is released and the handler returns.
PStore ==
    /\ pPc = "store"
    /\ lock = "producer"
    /\ gstbuffer' = sample
    /\ dropped' = IF gstbuffer = NoBuffer THEN dropped ELSE dropped \cup {gstbuffer}
    /\ waiting' = FALSE
    /\ lock' = "none"
    /\ sample' = NoBuffer
    /\ pPc' = "idle"
    /\ UNCHANGED <<running, sink_size, box, nextFrame, delivered, ctlVars,
                   workerVars, overlayVars, pipeVars>>

(***************************************************************************)
(* Worker thread: GstPipeline.inference_loop and get_box.                  *)
(***************************************************************************)

\* get_box, lines 103-104: the two assertions of the first resolution.
GetBoxAsserts == (topo.glbox \/ topo.box) /\ sink_size # None

\* get_box, lines 105-111: the rectangle read from the glbox filter, or
\* derived from the videobox insets and sink_size.
ResolveBox ==
    IF topo.glbox
    THEN <<props[1], props[2], props[3], props[4]>>
    ELSE <<-props[1], -props[2],
           sink_size[1] + props[1] + props[3],
           sink_size[2] + props[2] + props[4]>>

\* GetBox without the 'if not self.box' (line 98): the rectangle is resolved
\* from the elements' properties at every call.
GetBoxUncached == ResolveBox

\* get_box, lines 98 and 112: the value of self.box after the call.
GetBox == IF box = None THEN ResolveBox ELSE box

\* inference_loop, line 117: the condition of the inner while loop.
MustWait == gstbuffer = NoBuffer /\ running

\* MustBreak that leaves the loop only when the slot is empty as well.
MustBreakWhenEmpty == ~running /\ gstbuffer = NoBuffer

\* inference_loop, line 119: the condition of the break.
MustBreak == ~running

\* inference_loop, line 116: with self.condition (the lock is acquired)
WLock ==
    /\ wPc = "lock"
    /\ lock = "none"
    /\ lock' = "worker"
    /\ wPc' = "check"
    /\ UNCHANGED <<running, gstbuffer, sink_size, box, waiting, wbuf, delivered,
                   dropped, ctlVars, producerVars, overlayVars, pipeVars>>

\* inference_loop, lines 117-118: the inner loop's test; condition.wait()
\* releases the lock and blocks until notified.
WCheck ==
    /\ wPc = "check"
    /\ lock = "worker"
    /\ \/ /\ MustWait
          /\ waiting' = TRUE
          /\ lock' = "none"
          /\ wPc' = "wait"
       \/ /\ ~MustWait
          /\ wPc' = "decide"
          /\ UNCHANGED <<waiting, lock>>
    /\ UNCHANGED <<running, gstbuffer, sink_size, box, wbuf, delivered, dropped,
                   ctlVars, producerVars, overlayVars, pipeVars>>

\* inference_loop, line 118: a notified waiter takes the lock again and
\* condition.wait() returns.
WWake ==
    /\ wPc = "wait"
    /\ ~waiting
    /\ lock = "none"
    /\ lock' = "worker"
    /\ wPc' = "check"
    /\ UNCHANGED <<running, gstbuffer, sink_size, box, waiting, wbuf, delivered,
                   dropped, ctlVars, producerVars, overlayVars, pipeVars>>

\* WTake with the self.gstbuffer = None (line 122) left out.
WTakeNoClear ==
    /\ wPc = "decide"
    /\ lock = "worker"
    /\ \/ /\ MustBreak
          /\ wPc' = "exit"
          /\ UNCHANGED wbuf
       \/ /\ ~MustBreak
          /\ wbuf' = gstbuffer
          /\ wPc' = "call"
    /\ lock' = "none"
    /\ UNCHANGED <<running, gstbuffer, sink_size, box, waiting, delivered, dropped,
                   ctlVars, producerVars, overlayVars, pipeVars>>

\* WTake with the user function called inside the with block: the lock is
\* still held when the call starts.
WTakeHoldLock ==
    /\ wPc = "decide"
    /\ lock = "worker"
    /\ \/ /\ MustBreak
          /\ wPc' = "exit"
          /\ lock' = "none"
          /\ UNCHANGED <<gstbuffer, wbuf>>
       \/ /\ ~MustBreak
          /\ wbuf' = gstbuffer
          /\ gstbuffer' = NoBuffer
          /\ wPc' = "call"
          /\ UNCHANGED lock
    /\ UNCHANGED <<running, sink_size, box, waiting, delivered, dropped, ctlVars,
                   producerVars, overlayVars, pipeVars>>

\* inference_loop, lines 119-122 and the end of the with block: break out of
\* the loop (the thread ends), or move the slot's frame to the local and
\* empty the slot; either way the lock is released.
WTake ==
    /\ wPc = "decide"
    /\ lock = "worker"
    /\ \/ /\ MustBreak
          /\ wPc' = "exit"
          /\ UNCHANGED <<gstbuffer, wbuf>>
       \/ /\ ~MustBreak
          /\ wbuf' = gstbuffer
          /\ gstbuffer' = NoBuffer
          /\ wPc' = "call"
    /\ lock' = "none"
    /\ UNCHANGED <<running, sink_size, box, waiting, delivered, dropped, ctlVars,
                   producerVars, overlayVars, pipeVars>>

\* inference_loop, lines 129-130: self.get_box() is evaluated, then
\* self.user_function is entered with the taken frame; a failed assertion of
\* get_box ends the thread.
WCall ==
    /\ wPc = "call"
    /\ \/ /\ box = None /\ ~GetBoxAsserts
          /\ wPc' = "dead"
          /\ UNCHANGED <<box, delivered>>
       \/ /\ box # None \/ GetBoxAsserts
          /\ box' = GetBox
          /\ delivered' = Append(delivered, wbuf)
          /\ wPc' = "incall"
    /\ UNCHANGED <<running, gstbuffer, sink_size, lock, waiting, wbuf, dropped,
                   ctlVars, producerVars, overlayVars, pipeVars>>

\* WReturn that calls the user function again with the same frame when the
\* result was empty.
WReturnRetry(r) ==
    /\ wPc = "incall"
    /\ overlayData' = IF r # "" /\ topo.overlay THEN r ELSE overlayData
    /\ overlaysinkSvg' = IF r # "" /\ topo.overlaysink THEN r ELSE overlaysinkSvg
    /\ wPc' = IF r = "" THEN "call" ELSE "lock"
    /\ UNCHANGED <<running, gstbuffer, sink_size, box, lock, waiting, wbuf, delivered,
                   dropped, ctlVars, producerVars, pipeVars>>

\* WReturn without the 'if svg' (line 131): an empty result is published too.
WReturnPublishesEmpty(r) ==
    /\ wPc = "incall"
    /\ overlayData' = IF topo.overlay THEN r ELSE overlayData
    /\ overlaysinkSvg' = IF topo.overlaysink THEN r ELSE overlaysinkSvg
    /\ wPc' = "lock"
    /\ UNCHANGED <<running, gstbuffer, sink_size, box, lock, waiting, wbuf, delivered,
                   dropped, ctlVars, producerVars, pipeVars>>

\* inference_loop, lines 130-135: self.user_function returns r; a truthy r
\* is set on each overlay element that exists; then the outer loop starts over.
WReturn(r) ==
    /\ wPc = "incall"
    /\ overlayData' = IF r # "" /\ topo.overlay THEN r ELSE overlayData
    /\ overlaysinkSvg' = IF r # "" /\ topo.overlaysink THEN r ELSE overlaysinkSvg
    /\ wPc' = "lock"
    /\ UNCHANGED <<running, gstbuffer, sink_size, box, lock, waiting, wbuf, delivered,
                   dropped, ctlVars, producerVars, pipeVars>>

\* inference_loop, line 130: self.user_function raises; nothing catches it
\* and the thread ends.
WRaise ==
    /\ wPc = "incall"
    /\ wPc' = "dead"
    /\ UNCHANGED <<running, gstbuffer, sink_size, box, lock, waiting, wbuf,
                   delivered, dropped, ctlVars, producerVars, overlayVars, pipeVars>>

(***************************************************************************)
(* The pipeline's elements.                                                *)
(***************************************************************************)

\* The geometry properties of the glbox / box element change (caps
\* negotiation with autocrop=true, line 223).
PropertyDrift ==
    /\ \E p \in PropValues \ {props} : props' = p
    /\ UNCHANGED <<running, gstbuffer, sink_size, box, lock, waiting, pipelineState,
                   topo, delivered, dropped, ctlVars, workerVars, producerVars,
                   overlayVars>>

(***************************************************************************)
(* Specifications.                                                         *)
(***************************************************************************)

\* The steps of run() itself.
Control ==
    \/ RunStart
    \/ RunSpawn
    \/ RunPlay
    \/ MainReturn
    \/ RunSetNull
    \/ RunDrain
    \/ RunAcquire
    \/ RunStop
    \/ RunJoin

\* What the main loop's event sources bring about.
Events ==
    \/ \E t \in MsgTypes : OnBusMessage(t)
    \/ WindowDelete
    \/ KeyboardInterrupt

\* The steps of on_new_sample after the sample was pulled.
Deposit ==
    \/ \E sz \in CapsSizes : PSize(sz)
    \/ PLock
    \/ PStore

\* The steps of inference_loop.
Worker ==
    \/ WLock
    \/ WCheck
    \/ WWake
    \/ WTake
    \/ WCall
    \/ \E r \in SvgValues : WReturn(r)
    \/ WRaise

Next ==
    \/ Control
    \/ Events
    \/ PPull
    \/ Deposit
    \/ Worker
    \/ PropertyDrift

Spec == Init /\ [][Next]_vars

\* Every thread that can take a step eventually takes one, and a call of the
\* user function ends. Nothing is assumed of the events and of the arrival of
\* samples.
FairSpec ==
    /\ Spec
    /\ WF_vars(Control)
    /\ WF_vars(Deposit)
    /\ WF_vars(Worker)

(***************************************************************************)
(* Properties.                                                             *)
(***************************************************************************)

\* The last frame on_new_sample has stored (0 before the first): a pulled
\* sample counts only once the handler has returned.
LastDeposited == IF pPc = "idle" THEN nextFrame ELSE nextFrame - 1

\* The frames passed to the user function so far.
DeliveredSet == {delivered[i] : i \in 1..Len(delivered)}

\* The worker thread died of an exception the user function raised: it was
\* inside the call for the frame it holds (a failed assertion of get_box
\* kills it before the call).
UserFunctionRaised == wPc = "dead" /\ wbuf \in DeliveredSet

\* The worker thread has ended.
WorkerEnded == wPc \in {"exit", "dead"}

\* C1 (latest frame wins): the slot is empty or holds exactly one frame, the
\* last one deposited; a take hands the worker the last frame deposited; a
\* frame overwritten in the slot is never taken and never passed to the user
\* function.
C1_LatestFrameWins ==
    /\ [](/\ gstbuffer \in {NoBuffer} \cup (1..MaxFrames)
          /\ gstbuffer # NoBuffer => gstbuffer = LastDeposited
          /\ wbuf \notin dropped
          /\ DeliveredSet \cap dropped = {})
    /\ [][wbuf' # wbuf => wbuf' = LastDeposited /\ gstbuffer' = NoBuffer]_vars

\* Three deposits with no take between them, then a take and the call: the
\* user function got the third frame, the first two were overwritten.
C1_Witness == dropped = {1, 2} /\ delivered = <<3>>

\* C2 (delivery order): the frames passed to the user function are strictly
\* increasing in deposit order: no duplicate, no reordering.
C2_DeliveredIncreasing ==
    \A i \in 1..Len(delivered) : \A j \in 1..Len(delivered) :
        i < j => delivered[i] < delivered[j]

\* Frame 1 delivered, frame 2 overwritten, frame 3 delivered.
C2_Witness == delivered = <<1, 3>> /\ dropped = {2}

\* C3 (shutdown terminates, no missed wakeup): the worker is never left in
\* condition.wait() un-notified once running is cleared, and once run() has
\* cleared the flag and waits in worker.join(), the worker ends and run()
\* returns.
C3_ShutdownTerminates ==
    /\ [](waiting => running)
    /\ (ctlPc = "join") ~> (WorkerEnded /\ ctlPc = "done")

\* run() waits in join while the worker, blocked in condition.wait() when the
\* flag was cleared, has been notified but has not run yet.
C3_Witness == ctlPc = "join" /\ wPc = "wait" /\ ~waiting /\ gstbuffer = NoBuffer

\* C4 (shutdown ordering in run()): the control thread gets to worker.join()
\* only by the step that, holding the lock, clears running and notifies; it
\* takes the lock only after the drain loop has ended, and enters the drain
\* loop only by the step that commands the pipeline to NULL; while it is in
\* join, running is false and the pipeline is at NULL.
C4_ShutdownOrdering ==
    /\ [](ctlPc = "join" => ~running /\ pipelineState = "NULL")
    /\ [][/\ (ctlPc' = "join" /\ ctlPc # "join") =>
               /\ ctlPc = "stop" /\ lock = "ctl"
               /\ ~running' /\ ~waiting'
               /\ pipelineState = "NULL"
          /\ (ctlPc' = "stop" /\ ctlPc # "stop") =>
               ctlPc = "lock" /\ lock' = "ctl" /\ pipelineState = "NULL"
          /\ (ctlPc' = "lock" /\ ctlPc # "lock") =>
               ctlPc = "drain" /\ pipelineState = "NULL"
          /\ (ctlPc' = "drain" /\ ctlPc # "drain") =>
               ctlPc = "null" /\ pipelineState' = "NULL"]_vars

\* run() waits in join, after a session that streamed, for a worker that has
\* not ended yet.
C4_Witness == ctlPc = "join" /\ ~WorkerEnded /\ nextFrame > 0

\* C5 (cooperative cancellation): a call of the user function is ended only
\* by the worker's own return or raise; run() never returns from join while
\* the worker has not ended; and once the flag is cleared the worker starts
\* no new take: at its next pass through the loop it breaks.
C5_CooperativeCancel ==
    /\ [](ctlPc = "done" => WorkerEnded)
    /\ [][/\ (wPc = "incall" /\ wPc' # "incall") =>
               (WRaise \/ \E r \in SvgValues : WReturn(r))
          /\ (ctlPc \in {"join", "done"} /\ wPc = "decide" /\ wPc' # "decide") =>
               (wPc' = "exit" /\ delivered' = delivered)]_vars

\* The flag is cleared and run() waits in join while the worker is inside
\* the user function.
C5_Witness == ctlPc = "join" /\ ~running /\ wPc = "incall"

\* C6 (the producer is not blocked by the consumer): the worker does not own
\* the lock from the moment it has taken a frame until the user function has
\* returned and the overlay is published; a deposit that waits for the lock
\* while the worker is in the call can take it unless run() holds it for its
\* one clean-up step.
C6_ProducerNotBlocked ==
    /\ wPc \in {"call", "incall"} => lock # "worker"
    /\ (wPc = "incall" /\ pPc = "lock") => (lock = "ctl" \/ ENABLED PLock)

\* on_new_sample owns the lock and is about to store a frame while the worker
\* is inside the user function.
C6_Witness == wPc = "incall" /\ pPc = "store" /\ lock = "producer"

\* C7 as stated (terminal result only when stopped AND the slot is empty; a
\* frame in the slot at that moment is still taken).
C7_TerminalOnlyWhenEmpty ==
    [][(wPc = "decide" /\ wPc' # "decide") =>
         IF ~running /\ gstbuffer = NoBuffer
         THEN wPc' = "exit"
         ELSE wPc' = "call" /\ wbuf' = gstbuffer /\ gstbuffer' = NoBuffer]_vars

\* C7 (amended): the worker's take step returns the terminal result exactly
\* when it finds running cleared, whether or not the slot is empty; a frame
\* in the slot at that moment stays there and is never passed to the user
\* function. With running set, the step empties the slot and the worker
\* receives the frame that was in it.
C7_TerminalWhenStopped ==
    /\ [](wPc = "exit" => ~running /\ gstbuffer \notin DeliveredSet)
    /\ [][(wPc = "decide" /\ wPc' # "decide") =>
            IF ~running
            THEN wPc' = "exit" /\ UNCHANGED <<gstbuffer, wbuf, delivered>>
            ELSE /\ wPc' = "call"
                 /\ gstbuffer # NoBuffer
                 /\ wbuf' = gstbuffer
                 /\ gstbuffer' = NoBuffer]_vars

\* The worker has left the loop and a frame is still in the slot.
C7_Witness == wPc = "exit" /\ gstbuffer # NoBuffer

\* C8 as stated (a dead worker is session-fatal): once the worker thread has
\* died of an exception, run() goes through its clean-up and returns.
C8_WorkerFaultStopsSession ==
    UserFunctionRaised ~> (ctlPc = "done" /\ pipelineState = "NULL" /\ ~running)

\* C9 (EOS and ERROR end the session): on_bus_message, run by Gtk.main() for
\* an EOS or an ERROR message, quits the main loop; once it is quit, run()
\* goes through the one clean-up (pipeline at NULL, flag cleared, worker
\* joined) and returns; after that nothing sets the pipeline playing again
\* and run() stays returned.
C9_FatalMessageStops ==
    /\ [][\A t \in {"EOS", "ERROR"} :
            (ctlPc = "main" /\ OnBusMessage(t)) => quit']_vars
    /\ (ctlPc = "main" /\ quit) ~>
            (ctlPc = "done" /\ pipelineState = "NULL" /\ ~running /\ WorkerEnded)
    /\ [][(ctlPc \in {"join", "done"} => (pipelineState' = "NULL" /\ ~running'))
          /\ (ctlPc = "done" => ctlPc' = "done")]_vars

\* A pipeline with no window to close: an ERROR message quit the main loop
\* (the last line on stderr is the error) and run() has returned.
C9_Witness ==
    /\ ~topo.overlaysink
    /\ quit /\ stderr = "Error"
    /\ ctlPc = "done" /\ nextFrame > 0

\* C10 (a WARNING changes no session state): on_bus_message for a WARNING
\* leaves running, the slot, the cached region, sink_size, the pipeline state
\* and the position of run() as they are and does not quit the main loop; it
\* only writes to stderr.
C10_WarningNoStateChange ==
    [][OnBusMessage("WARNING") =>
         (/\ UNCHANGED <<running, gstbuffer, box, sink_size, pipelineState, quit,
                         ctlPc, lock, waiting>>
          /\ stderr' = "Warning")]_vars

\* A warning was the last thing reported and the session still runs.
C10_Witness ==
    /\ stderr = "Warning"
    /\ ctlPc = "main" /\ ~quit
    /\ running /\ pipelineState = "PLAYING" /\ gstbuffer # NoBuffer

\* An ERROR message was handled (its report is the last line on stderr) and
\* a bus message quit the main loop: the pipeline has no window to close.
EndedByError == quit /\ stderr = "Error" /\ ~topo.overlaysink

\* C11 as stated (the exit status tells the cause): when run() has returned,
\* the process ends abnormally (non-zero) if a fatal ERROR message ended the
\* session and normally otherwise.
C11_ExitStatusByCause ==
    ctlPc = "done" => (IF EndedByError THEN ExitStatus # 0 ELSE ExitStatus = 0)

\* C12 (the run state is monotonic, run() its only writer): running is set
\* by the first step of run() and cleared by its clean-up step, by nothing
\* else, and never by a step of the worker or of on_new_sample; once cleared
\* by the clean-up it stays cleared.
C12_RunStateMonotonic ==
    /\ [](ctlPc = "start" => ~running)
    /\ [][/\ (running' # running) =>
               /\ \/ ctlPc = "start" /\ ctlPc' = "spawn" /\ running'
                  \/ ctlPc = "stop" /\ ctlPc' = "join" /\ ~running'
               /\ wPc' = wPc /\ pPc' = pPc
          /\ (ctlPc \in {"join", "done"}) => ~running']_vars

\* A session that started, passed a frame to the user function, and was
\* stopped: running went False, True, False.
C12_Witness == ctlPc = "done" /\ ~running /\ delivered # <<>>

\* The worker is at a line that reads self.running: the test of the inner
\* loop (line 117) or the test of the break (line 119).
WorkerReadsRunning == wPc \in {"check", "decide"}

\* C13 as stated (every access to running is made under the lock, the write
\* that starts the session included): a step that changes running is taken
\* by run() owning the lock, and the worker owns the lock wherever it reads
\* running.
C13_AllAccessUnderLock ==
    /\ [](WorkerReadsRunning => lock = "worker")
    /\ [][running' # running => lock = "ctl"]_vars

\* C13 (amended): from the start of the worker thread on, every access to
\* running is made under the lock: the worker owns it wherever it reads
\* running and run() owns it when it clears running; the one write made
\* without the lock is line 54, made before the worker thread exists.
C13_AccessUnderLockOnceShared ==
    /\ [](WorkerReadsRunning => lock = "worker")
    /\ [][running' # running =>
            \/ lock = "ctl" /\ ~running'
            \/ wPc = "none" /\ wPc' = "none" /\ ctlPc = "start" /\ running']_vars

\* run() has cleared running under the lock and the worker, owning the lock
\* in its turn, is at the test of the break and reads the cleared flag.
C13_Witness == wPc = "decide" /\ lock = "worker" /\ ~running /\ ctlPc = "join"

\* The frames the worker has removed from the slot: every frame deposited
\* that was neither overwritten nor is still in the slot.
Taken == (1..LastDeposited) \ (dropped \cup {gstbuffer})

\* The frame the worker has removed and is about to pass to the user function.
Pending == IF wPc = "call" THEN {wbuf} ELSE {}

\* The frame the worker held when the first assertion of get_box (line 103)
\* failed: the thread died before the call.
Abandoned ==
    IF wPc = "dead" /\ ~(topo.glbox \/ topo.box) THEN {wbuf} \ {NoBuffer} ELSE {}

\* A call of the user function starts only from the line of the call, with
\* the frame just taken: never while an earlier call is still running.
CallsStartOneAtATime ==
    [][delivered' # delivered =>
         /\ wPc = "call" /\ wPc' = "incall"
         /\ delivered' = Append(delivered, wbuf)]_vars

C15_BoxIdempotent ==
    /\ [][box # None => box' = box]_vars
    /\ [][(wPc = "call" /\ wPc' = "incall" /\ box # None) =>
            (box' = GetBox /\ GetBox = box)]_vars

\* The user function was entered a second time after the properties of the
\* glbox / box element had drifted from the ones the cached rectangle was
\* resolved from.
C15_Witness ==
    /\ Len(delivered) >= 2 /\ wPc = "incall"
    /\ box # None /\ box # ResolveBox

\* C16 (overlay publication): when the user function returns a non-empty
\* description, each overlay element that exists is set to it; when it returns
\* an empty one, no overlay element is written. Nothing else writes them, so
\* each keeps the last non-empty description, an element that does not exist
\* is never written, and two existing elements hold the same description.
C16_OverlayPublication ==
    /\ [](/\ ~topo.overlay => overlayData = ""
          /\ ~topo.overlaysink => overlaysinkSvg = ""
          /\ (topo.overlay /\ topo.overlaysink) => overlayData = overlaysinkSvg)
    /\ [][\A r \in SvgValues : WReturn(r) =>
            IF r # ""
            THEN /\ topo.overlay => overlayData' = r
                 /\ topo.overlaysink => overlaysinkSvg' = r
            ELSE UNCHANGED overlayVars]_vars
    /\ [][overlayVars' # overlayVars => (wPc = "incall" /\ wPc' = "lock")]_vars

\* Both overlay elements exist and hold the same description while the third
\* call of the user function is running.
C16_Witness ==
    /\ topo.overlay /\ topo.overlaysink
    /\ overlayData = "svgB" /\ overlaysinkSvg = "svgB"
    /\ Len(delivered) = 3 /\ wPc = "incall"

\* The session no longer runs, or the worker thread has died of an exception
\* (a call of the user function that did not return, a failed assertion).
SessionOver == ~running \/ wPc = "dead"

\* C17 (no lost wakeup on deposit): the worker never sits un-notified in
\* condition.wait() while a frame is in the slot; a slot that holds a frame
\* is in the end emptied by the worker (a frame in it meanwhile overwritten by
\* a later deposit) unless the session stops or the worker dies first; and
\* the worker's next step after a take passes the frame it took to the user
\* function (or is the failed assertion of get_box). So the last frame
\* deposited is passed to the user function, wherever the worker was when it
\* was deposited.
C17_DepositedFrameIsTaken ==
    /\ [](waiting => gstbuffer = NoBuffer)
    /\ (gstbuffer # NoBuffer) ~> (gstbuffer = NoBuffer \/ SessionOver)
    /\ [][(wPc = "call" /\ wPc' # "call") =>
            \/ wPc' = "incall" /\ delivered' = Append(delivered, wbuf)
            \/ wPc' = "dead"]_vars

\* A frame was deposited while the worker was blocked in condition.wait():
\* the worker is notified and has not run yet.
C17_Witness ==
    /\ wPc = "wait" /\ ~waiting /\ gstbuffer # NoBuffer
    /\ running /\ ctlPc = "main" /\ ~quit

\* C18 (the region precondition holds where the worker uses it): sink_size
\* is set before on_new_sample stores its frame, so it is set whenever the
\* slot holds a frame and whenever the worker holds one; at the call of
\* get_box() the 'assert self.sink_size' therefore holds, and the only way
\* get_box() fails is the 'assert glbox or box'. sink_size is written once.
C18_SinkSizeKnown ==
    /\ [](/\ pPc \in {"lock", "store"} => sink_size # None
          /\ gstbuffer # NoBuffer => sink_size # None
          /\ wPc \in {"call", "incall"} => sink_size # None)
    /\ [][sink_size # None => sink_size' = sink_size]_vars
    /\ [][(wPc = "call" /\ wPc' = "dead") => ~(topo.glbox \/ topo.box)]_vars

\* The rectangle was resolved from sink_size and the videobox insets, and a
\* second frame has been passed to the user function since.
C18_Witness ==
    /\ ~topo.glbox /\ topo.box
    /\ box # None /\ sink_size # None
    /\ Len(delivered) >= 2

\* run() has cleared running.
FlagCleared == ctlPc \in {"join", "done"}

\* C19 (bounded work after shutdown): once run() has cleared running, the
\* worker removes no frame from the slot, and a call of the user function it
\* starts is for the frame it holds, taken before the flag was cleared and
\* not passed to a call yet: at most one such call.
C19_BoundedWorkAfterStop ==
    [][FlagCleared =>
         /\ wbuf' = wbuf
         /\ gstbuffer # NoBuffer => gstbuffer' # NoBuffer
         /\ delivered' # delivered =>
              /\ wPc = "call"
              /\ wbuf \notin DeliveredSet
              /\ delivered' = Append(delivered, wbuf)]_vars

\* running is cleared while the worker holds a frame it took before and has
\* not yet passed to the user function, and a newer frame sits in the slot.
C19_Witness == FlagCleared /\ wPc = "call" /\ gstbuffer # NoBuffer

\* C20 (the worker never exits early): the worker leaves its loop by the
\* break only after the clean-up of run() has cleared running; it does not
\* see the initial False and it does not leave because the slot is empty.
C20_NoEarlyExit ==
    /\ [](wPc = "exit" => FlagCleared)
    /\ [][(wPc # "exit" /\ wPc' = "exit") =>
            (wPc = "decide" /\ ~running /\ FlagCleared)]_vars
    /\ [](wPc \notin {"none", "exit", "dead"} /\ ~FlagCleared => running)

\* The worker found the slot empty, waited, and left the loop when the
\* clean-up notified it: no frame was ever deposited.
C20_Witness == wPc = "exit" /\ nextFrame = 0 /\ ctlPc = "join"

====
